---- MODULE Spec2Model ----
(***************************************************************************)
(* The four 0/1 knapsack solvers of src/main.py (mochila_gulosa,           *)
(* mochila_recursiva, mochila_memo, mochila_pd) and the loop of            *)
(* executar_testes that calls them, one after the other, on one input.     *)
(*                                                                         *)
(* A Projeto is a record [nome, valor, custo].  Python lists are TLA+      *)
(* sequences; the code's 0-based index i is kept and projetos[i] is read   *)
(* as projetos[i + 1].  A (valor, itens) tuple is a record [valor, itens]. *)
(* In every input the names are pairwise different, so a returned name     *)
(* identifies one item of the input.                                       *)
(***************************************************************************)
EXTENDS Integers, Sequences, FiniteSets, TLC

\* ------------------------------------------------------------------ bounds
\* Largest number of items, largest valor, largest custo and largest
\* capacidade of the enumerated inputs.
MaxItens == 2
MaxValor == 2
MaxCusto == 2
MaxCapacidade == 3

\* ------------------------------------------------------------------ inputs
Nomes == <<"P1", "P2", "P3", "P4", "P5", "P6">>

Projeto(nome, valor, custo) == [nome |-> nome, valor |-> valor, custo |-> custo]

\* exemplo_enunciado(): the item list and the capacity of the first test.
exemplo_enunciado ==
    [projetos |-> << Projeto("A", 12, 4), Projeto("B", 10, 3),
                     Projeto("C", 7, 2), Projeto("D", 4, 3) >>,
     capacidade |-> 10]

\* Item lists of length n whose k-th item is named Nomes[k], with valor in
\* valores and custo in custos.
Listas(n, valores, custos) ==
    { [k \in 1..n |-> Projeto(Nomes[k], f[k][1], f[k][2])] :
        f \in [1..n -> valores \X custos] }

Entradas(valores, custos, capacidades) ==
    UNION { { [projetos |-> ps, capacidade |-> cap] :
                ps \in Listas(n, valores, custos), cap \in capacidades } :
            n \in 0..MaxItens }

\* exemplo_garagem_autonoma(): the second test (names without their accents).
exemplo_garagem_autonoma ==
    [projetos |-> << Projeto("Instalacao de Paineis Solares", 50, 6),
                     Projeto("Sistema de Baterias", 40, 5),
                     Projeto("Bracos Roboticos Autonomos", 45, 6),
                     Projeto("Frota de Drones de Entrega", 35, 4),
                     Projeto("Estacao de Recarga Eletrica", 30, 3),
                     Projeto("Painel Central de IA", 55, 5),
                     Projeto("Esteiras e Triagem Inteligente", 28, 3),
                     Projeto("Ferramentas de Manutencao", 12, 2) >>,
     capacidade |-> 10]

\* The two inputs executar_testes runs, and every valid input within the bounds.
EntradasValidas ==
    Entradas(0..MaxValor, 1..MaxCusto, 0..MaxCapacidade)
        \cup {exemplo_enunciado, exemplo_garagem_autonoma}

\* Inputs that may break the contract: custo 0 or -1, capacidade -1.
EntradasQuaisquer ==
    Entradas(0..MaxValor, (0 - 1)..MaxCusto, (0 - 1)..MaxCapacidade)

\* ------------------------------------------------------------------ helpers
\* projetos[i] of the code (0-based).
Item(ps, i) == ps[i + 1]

Resultado(valor, itens) == [valor |-> valor, itens |-> itens]

Max(a, b) == IF a >= b THEN a ELSE b

\* list.reverse()
RECURSIVE Reverse(_)
Reverse(s) == IF s = <<>> THEN <<>> ELSE Append(Reverse(Tail(s)), Head(s))

\* ------------------------------------------------------ Fase 1: gulosa
\* key(a) > key(b) for key = p.valor / p.custo, both custo nonzero.  The
\* quotients are compared exactly: a.valor/a.custo > b.valor/b.custo, both
\* sides multiplied by the positive (a.custo * b.custo)^2.
RazaoMaior(a, b) ==
    a.valor * a.custo * b.custo * b.custo > b.valor * b.custo * a.custo * a.custo

\* Insert p into the descending list s after every element whose key is >= p's.
RECURSIVE Inserir(_, _)
Inserir(s, p) ==
    IF s = <<>> THEN <<p>>
    ELSE IF RazaoMaior(p, Head(s)) THEN <<p>> \o s
    ELSE <<Head(s)>> \o Inserir(Tail(s), p)

\* sorted(projetos, key=..., reverse=True): descending by key, stable (items
\* of equal key keep their input order).
RECURSIVE Ordenar(_)
Ordenar(ps) ==
    IF ps = <<>> THEN <<>>
    ELSE Inserir(Ordenar(SubSeq(ps, 1, Len(ps) - 1)), ps[Len(ps)])

\* The key p.valor / p.custo raises ZeroDivisionError for custo = 0.
DivisaoPorZero(ps) == \E k \in 1..Len(ps) : ps[k].custo = 0

\* if p.custo <= restante
\* (CabeEstrito: the comparison made strict, p.custo < restante.)
CabeEstrito(p, rest) == p.custo < rest
Cabe(p, rest) == p.custo <= rest

\* --------------------------------------------------- Fase 2: recursiva
\* if valor_com > valor_sem: return com, else: return sem
\* (EscolherInvertido: the comparison turned round, valor_com < valor_sem.)
EscolherInvertido(com, sem) == IF com.valor < sem.valor THEN com ELSE sem
Escolher(com, sem) == IF com.valor > sem.valor THEN com ELSE sem

\* valor_com += projeto.valor; itens_com = itens_com + [projeto.nome]
\* (ComItemSemNome: the name is not appended.)
ComItemSemNome(r, projeto) == Resultado(r.valor + projeto.valor, r.itens)
ComItem(r, projeto) ==
    Resultado(r.valor + projeto.valor, Append(r.itens, projeto.nome))

\* mochila_recursiva.resolver(i, c)
RECURSIVE resolver(_, _, _)
resolver(ps, i, c) ==
    IF i < 0 \/ c <= 0 THEN Resultado(0, <<>>)
    ELSE LET projeto == Item(ps, i)
             sem == resolver(ps, i - 1, c)
         IN  IF projeto.custo > c THEN sem
             ELSE Escolher(ComItem(resolver(ps, i - 1, c - projeto.custo), projeto), sem)

mochila_recursiva(ps, cap) == resolver(ps, Len(ps) - 1, cap)

\* ---------------------------------------------------- Fase 3: memoizacao
\* One activation of mochila_memo.resolver(i, c).  pos is the place the
\* activation is at: "inicio" (line 90), "sem" (waiting for the call of line
\* 96), "com" (waiting for the call of line 102); sem holds
\* (valor_sem, itens_sem) once line 96 has returned.
Quadro(i, c) == [i |-> i, c |-> c, pos |-> "inicio", sem |-> Resultado(0, <<>>)]

\* if (i, c) in memo
\* (NoCacheNunca: the cache is never consulted.)
NoCacheNunca(m, chave) == FALSE
NoCache(m, chave) == chave \in DOMAIN m

\* memo[(i, c)] = r, a dict assignment: an existing entry is replaced.
Gravar(m, chave, r) == (chave :> r) @@ m

\* lines 106-109: if valor_com > valor_sem: memo[...] = com, else: memo[...] = sem
\* (EscolherMemoEmpate: the include branch wins a tie, valor_com >= valor_sem.)
EscolherMemoEmpate(com, sem) == IF com.valor >= sem.valor THEN com ELSE sem
EscolherMemo(com, sem) == IF com.valor > sem.valor THEN com ELSE sem

\* ------------------------------------------- Fase 4: programacao dinamica
\* len(tabela[i]): [0] * (capacidade + 1) is the empty list when
\* capacidade + 1 <= 0.
Colunas(cap) == IF cap + 1 > 0 THEN cap + 1 ELSE 0

\* tabela = [[0] * (capacidade + 1) for _ in range(n + 1)]
TabelaInicial(n, cap) == [i \in 0..n |-> [c \in 0..(Colunas(cap) - 1) |-> 0]]

\* Python list indexing: an index in -len..len-1 is accepted, a negative one
\* counts from the end; any other index raises IndexError.
IndiceOk(idx, len) == 0 - len <= idx /\ idx < len
Indice(idx, len) == IF idx < 0 THEN idx + len ELSE idx

\* tabela[i][c] as Python reads it (i is always a valid row here).
Ler(tab, cap, i, c) == tab[i][Indice(c, Colunas(cap))]

\* lines 129-135: the value stored in tabela[i][c].
\* (CelulaSemMax: a fitting item is always taken, without the max;
\*  CelulaJusta: an item of custo = c is treated as not fitting.)
CelulaSemMax(tab, cap, projeto, i, c) ==
    IF projeto.custo > c THEN Ler(tab, cap, i - 1, c)
    ELSE projeto.valor + Ler(tab, cap, i - 1, c - projeto.custo)
CelulaJusta(tab, cap, projeto, i, c) ==
    IF projeto.custo >= c THEN Ler(tab, cap, i - 1, c)
    ELSE Max(Ler(tab, cap, i - 1, c),
             projeto.valor + Ler(tab, cap, i - 1, c - projeto.custo))
Celula(tab, cap, projeto, i, c) ==
    IF projeto.custo > c THEN Ler(tab, cap, i - 1, c)
    ELSE Max(Ler(tab, cap, i - 1, c),
             projeto.valor + Ler(tab, cap, i - 1, c - projeto.custo))

\* The index read on line 134 that can be out of range.
CelulaIndiceOk(cap, projeto, c) ==
    projeto.custo > c \/ IndiceOk(c - projeto.custo, Colunas(cap))

\* ------------------------------------------------------------------ state
VARIABLES
    projetos, capacidade,      \* the input of the run
    pc,                        \* place in executar_testes and in the solver running
    excecao,                   \* "" or the exception that ended the run
    res,                       \* per solver: <<>> or <<its returned (valor, itens)>>
    projetos_ordenados, k, restante, valor_total, escolhidos,   \* mochila_gulosa
    memo, pilha, ret,          \* mochila_memo: cache, call stack, last returned value
    avaliadas, escritas,       \* mochila_memo: keys whose body ran / keys written, in order
    tabela, i, c, valor_final, itens_escolhidos                 \* mochila_pd

vars == << projetos, capacidade, pc, excecao, res,
           projetos_ordenados, k, restante, valor_total, escolhidos,
           memo, pilha, ret, avaliadas, escritas,
           tabela, i, c, valor_final, itens_escolhidos >>

entrada == << projetos, capacidade >>
gulosaVars == << projetos_ordenados, k, restante, valor_total, escolhidos >>
memoVars == << memo, pilha, ret, avaliadas, escritas >>
pdVars == << tabela, i, c, valor_final, itens_escolhidos >>

n == Len(projetos)

Locais ==
    /\ pc = "gulosa"
    /\ excecao = ""
    /\ res = [gulosa |-> <<>>, recursiva |-> <<>>, memo |-> <<>>, pd |-> <<>>]
    /\ projetos_ordenados = <<>> /\ k = 0 /\ restante = 0
    /\ valor_total = 0 /\ escolhidos = <<>>
    /\ memo = <<>> /\ pilha = <<>> /\ ret = Resultado(0, <<>>)
    /\ avaliadas = <<>> /\ escritas = <<>>
    /\ tabela = <<>> /\ i = 0 /\ c = 0 /\ valor_final = 0 /\ itens_escolhidos = <<>>

Init ==
    /\ \E e \in EntradasValidas : projetos = e.projetos /\ capacidade = e.capacidade
    /\ Locais

InitQualquer ==
    /\ \E e \in EntradasQuaisquer : projetos = e.projetos /\ capacidade = e.capacidade
    /\ Locais

\* An uncaught exception ends executar_testes.
Falha(nome) ==
    /\ pc' = "falha"
    /\ excecao' = nome

\* ----------------------------------------------------- mochila_gulosa
\* lines 34-37
GulosaInicio ==
    /\ pc = "gulosa"
    /\ IF DivisaoPorZero(projetos)
         THEN /\ Falha("ZeroDivisionError")
              /\ UNCHANGED gulosaVars
         ELSE /\ projetos_ordenados' = Ordenar(projetos)
              /\ restante' = capacidade
              /\ valor_total' = 0
              /\ escolhidos' = <<>>
              /\ k' = 1
              /\ pc' = "gulosa_for"
              /\ UNCHANGED excecao
    /\ UNCHANGED << entrada, res, memoVars, pdVars >>

\* lines 39-43, one iteration
GulosaPasso ==
    /\ pc = "gulosa_for"
    /\ k <= Len(projetos_ordenados)
    /\ LET p == projetos_ordenados[k]
       IN  IF Cabe(p, restante)
             THEN /\ escolhidos' = Append(escolhidos, p.nome)
                  /\ valor_total' = valor_total + p.valor
                  /\ restante' = restante - p.custo
             ELSE UNCHANGED << escolhidos, valor_total, restante >>
    /\ k' = k + 1
    /\ UNCHANGED << entrada, pc, excecao, res, projetos_ordenados, memoVars, pdVars >>

\* line 45
GulosaRetorna ==
    /\ pc = "gulosa_for"
    /\ k > Len(projetos_ordenados)
    /\ res' = [res EXCEPT !.gulosa = << Resultado(valor_total, escolhidos) >>]
    /\ pc' = "recursiva"
    /\ UNCHANGED << entrada, excecao, gulosaVars, memoVars, pdVars >>

\* --------------------------------------------------- mochila_recursiva
\* lines 51-76
Recursiva ==
    /\ pc = "recursiva"
    /\ res' = [res EXCEPT !.recursiva = << mochila_recursiva(projetos, capacidade) >>]
    /\ pc' = "memo"
    /\ UNCHANGED << entrada, excecao, gulosaVars, memoVars, pdVars >>

\* -------------------------------------------------------- mochila_memo
Topo == pilha[Len(pilha)]
Desempilhar == SubSeq(pilha, 1, Len(pilha) - 1)

\* lines 86-87 and the call of line 113
MemoInicio ==
    /\ pc = "memo"
    /\ memo' = <<>>
    /\ pilha' = << Quadro(n - 1, capacidade) >>
    /\ avaliadas' = <<>>
    /\ escritas' = <<>>
    /\ pc' = "memo_resolver"
    /\ UNCHANGED << entrada, excecao, res, gulosaVars, ret, pdVars >>

\* lines 90-96: base case, cache hit, or the first recursive call
MemoEntra ==
    /\ pc = "memo_resolver"
    /\ pilha # <<>>
    /\ Topo.pos = "inicio"
    /\ IF Topo.i < 0 \/ Topo.c <= 0
         THEN /\ ret' = Resultado(0, <<>>)
              /\ pilha' = Desempilhar
              /\ UNCHANGED avaliadas
         ELSE IF NoCache(memo, << Topo.i, Topo.c >>)
         THEN /\ ret' = memo[<< Topo.i, Topo.c >>]
              /\ pilha' = Desempilhar
              /\ UNCHANGED avaliadas
         ELSE /\ pilha' = Append([pilha EXCEPT ![Len(pilha)].pos = "sem"],
                                 Quadro(Topo.i - 1, Topo.c))
              /\ avaliadas' = Append(avaliadas, << Topo.i, Topo.c >>)
              /\ UNCHANGED ret
    /\ UNCHANGED << entrada, pc, excecao, res, gulosaVars, memo, escritas, pdVars >>

\* lines 96-102: the call of line 96 has returned ret
MemoAposSem ==
    /\ pc = "memo_resolver"
    /\ pilha # <<>>
    /\ Topo.pos = "sem"
    /\ LET projeto == Item(projetos, Topo.i)
           chave == << Topo.i, Topo.c >>
       IN  IF projeto.custo > Topo.c
             THEN /\ memo' = Gravar(memo, chave, ret)
                  /\ escritas' = Append(escritas, chave)
                  /\ ret' = memo'[chave]
                  /\ pilha' = Desempilhar
             ELSE /\ pilha' = Append([pilha EXCEPT ![Len(pilha)].pos = "com",
                                                   ![Len(pilha)].sem = ret],
                                     Quadro(Topo.i - 1, Topo.c - projeto.custo))
                  /\ UNCHANGED << memo, escritas, ret >>
    /\ UNCHANGED << entrada, pc, excecao, res, gulosaVars, avaliadas, pdVars >>

\* lines 102-111: the call of line 102 has returned ret
MemoAposCom ==
    /\ pc = "memo_resolver"
    /\ pilha # <<>>
    /\ Topo.pos = "com"
    /\ LET projeto == Item(projetos, Topo.i)
           chave == << Topo.i, Topo.c >>
       IN  /\ memo' = Gravar(memo, chave, EscolherMemo(ComItem(ret, projeto), Topo.sem))
           /\ escritas' = Append(escritas, chave)
           /\ ret' = memo'[chave]
           /\ pilha' = Desempilhar
    /\ UNCHANGED << entrada, pc, excecao, res, gulosaVars, avaliadas, pdVars >>

\* line 113: the outermost resolver call has returned
MemoRetorna ==
    /\ pc = "memo_resolver"
    /\ pilha = <<>>
    /\ res' = [res EXCEPT !.memo = << ret >>]
    /\ pc' = "pd"
    /\ UNCHANGED << entrada, excecao, gulosaVars, memoVars, pdVars >>

\* ---------------------------------------------------------- mochila_pd
\* lines 123-124
PdInicio ==
    /\ pc = "pd"
    /\ tabela' = TabelaInicial(n, capacidade)
    /\ i' = 1
    /\ c' = 0
    /\ pc' = "pd_preenche"
    /\ UNCHANGED << entrada, excecao, res, gulosaVars, memoVars,
                    valor_final, itens_escolhidos >>

\* lines 126-135, one cell; range(capacidade + 1) is empty when capacidade < 0
PdPreenche ==
    /\ pc = "pd_preenche"
    /\ i <= n
    /\ capacidade >= 0
    /\ LET projeto == Item(projetos, i - 1)
       IN  IF CelulaIndiceOk(capacidade, projeto, c)
             THEN /\ tabela' = [tabela EXCEPT ![i][c] =
                                    Celula(tabela, capacidade, projeto, i, c)]
                  /\ IF c < capacidade
                       THEN c' = c + 1 /\ i' = i
                       ELSE c' = 0 /\ i' = i + 1
                  /\ UNCHANGED << pc, excecao >>
             ELSE /\ Falha("IndexError")
                  /\ UNCHANGED << tabela, i, c >>
    /\ UNCHANGED << entrada, res, gulosaVars, memoVars, valor_final, itens_escolhidos >>

\* lines 138-140
PdValorFinal ==
    /\ pc = "pd_preenche"
    /\ i > n \/ capacidade < 0
    /\ IF IndiceOk(capacidade, Colunas(capacidade))
         THEN /\ valor_final' = Ler(tabela, capacidade, n, capacidade)
              /\ itens_escolhidos' = <<>>
              /\ c' = capacidade
              /\ i' = n
              /\ pc' = "pd_reconstroi"
              /\ UNCHANGED excecao
         ELSE /\ Falha("IndexError")
              /\ UNCHANGED << valor_final, itens_escolhidos, c, i >>
    /\ UNCHANGED << entrada, res, gulosaVars, memoVars, tabela >>

\* line 143: if tabela[i][c] != tabela[i - 1][c]
\* (SelecionadoMaiorIgual: >= in place of !=; SelecionadoInclui: the item is
\*  taken whenever including it reaches tabela[i][c], also on a tie.)
SelecionadoMaiorIgual(tab, cap, lin, col) ==
    Ler(tab, cap, lin, col) >= Ler(tab, cap, lin - 1, col)
SelecionadoInclui(tab, cap, lin, col) ==
    LET projeto == Item(projetos, lin - 1)
    IN  /\ projeto.custo <= col
        /\ Ler(tab, cap, lin, col) =
               projeto.valor + Ler(tab, cap, lin - 1, col - projeto.custo)
Selecionado(tab, cap, lin, col) ==
    Ler(tab, cap, lin, col) # Ler(tab, cap, lin - 1, col)

\* lines 142-146, one iteration
PdReconstroi ==
    /\ pc = "pd_reconstroi"
    /\ i >= 1
    /\ IF IndiceOk(c, Colunas(capacidade))
         THEN /\ IF Selecionado(tabela, capacidade, i, c)
                   THEN LET projeto == Item(projetos, i - 1)
                        IN  /\ itens_escolhidos' = Append(itens_escolhidos, projeto.nome)
                            /\ c' = c - projeto.custo
                   ELSE UNCHANGED << itens_escolhidos, c >>
              /\ i' = i - 1
              /\ UNCHANGED << pc, excecao >>
         ELSE /\ Falha("IndexError")
              /\ UNCHANGED << itens_escolhidos, c, i >>
    /\ UNCHANGED << entrada, res, gulosaVars, memoVars, tabela, valor_final >>

\* lines 148-149
PdRetorna ==
    /\ pc = "pd_reconstroi"
    /\ i = 0
    /\ itens_escolhidos' = Reverse(itens_escolhidos)
    /\ res' = [res EXCEPT !.pd = << Resultado(valor_final, itens_escolhidos') >>]
    /\ pc' = "fim"
    /\ UNCHANGED << entrada, excecao, gulosaVars, memoVars, tabela, i, c, valor_final >>

\* executar_testes, lines 192-194: the four solvers in turn on one input
Next ==
    \/ GulosaInicio
    \/ GulosaPasso
    \/ GulosaRetorna
    \/ Recursiva
    \/ MemoInicio
    \/ MemoEntra
    \/ MemoAposSem
    \/ MemoAposCom
    \/ MemoRetorna
    \/ PdInicio
    \/ PdPreenche
    \/ PdValorFinal
    \/ PdReconstroi
    \/ PdRetorna

Spec == Init /\ [][Next]_vars

SpecQualquer == InitQualquer /\ [][Next]_vars

\* ------------------------------------------------------- what is claimed
\* A valid input: every valor >= 0, every custo >= 1, capacidade >= 0.
Valida(ps, cap) ==
    /\ cap >= 0
    /\ \A x \in 1..Len(ps) : ps[x].valor >= 0 /\ ps[x].custo >= 1

Solucionadores == {"gulosa", "recursiva", "memo", "pd"}
Exatos == {"recursiva", "memo", "pd"}

Retornou(f) == res[f] # <<>>
Saida(f) == res[f][1]

Range(s) == { s[x] : x \in 1..Len(s) }
SemRepeticao(s) == \A x, y \in 1..Len(s) : s[x] = s[y] => x = y

NomesDaEntrada == { projetos[x].nome : x \in 1..n }
ItemDeNome(nome) == CHOOSE p \in Range(projetos) : p.nome = nome

RECURSIVE SomaCusto(_)
SomaCusto(itens) ==
    IF itens = <<>> THEN 0 ELSE ItemDeNome(Head(itens)).custo + SomaCusto(Tail(itens))

RECURSIVE SomaValor(_)
SomaValor(itens) ==
    IF itens = <<>> THEN 0 ELSE ItemDeNome(Head(itens)).valor + SomaValor(Tail(itens))

\* Total custo and total valor of the items at the positions in S.
RECURSIVE CustoDe(_)
CustoDe(S) ==
    IF S = {} THEN 0
    ELSE LET x == CHOOSE y \in S : TRUE IN projetos[x].custo + CustoDe(S \ {x})

RECURSIVE ValorDe(_)
ValorDe(S) ==
    IF S = {} THEN 0
    ELSE LET x == CHOOSE y \in S : TRUE IN projetos[x].valor + ValorDe(S \ {x})

Viaveis == { S \in SUBSET (1..n) : CustoDe(S) <= capacidade }

\* The maximum total valor over the subsets whose total custo is <= capacidade.
Otimo == CHOOSE v \in { ValorDe(S) : S \in Viaveis } :
            \A S \in Viaveis : ValorDe(S) <= v

VariosOtimos == Cardinality({ S \in Viaveis : ValorDe(S) = Otimo }) >= 2

CabeTudo == CustoDe(1..n) <= capacidade

\* C1: on a valid input mochila_recursiva, mochila_memo and mochila_pd return
\* the same total value, namely the maximum total value over all subsets of
\* the items whose total cost is <= capacity, and the value returned by
\* mochila_gulosa is never greater than it.
C1_ValorOtimo ==
    Valida(projetos, capacidade) =>
        /\ \A f \in Exatos : Retornou(f) => Saida(f).valor = Otimo
        /\ Retornou("gulosa") => Saida("gulosa").valor <= Otimo

\* All four solvers have returned, and the greedy value is strictly below the
\* value of the three exact solvers.
C1_Witness ==
    /\ pc = "fim"
    /\ Saida("gulosa").valor < Saida("recursiva").valor
    /\ Saida("pd").valor = Saida("memo").valor

\* C2: on a valid input the names each solver returns are names of pairwise
\* different items of the input, the costs of these items sum to at most the
\* capacity, and the backward reconstruction of mochila_pd never drives its
\* remaining capacity c below 0.
C2_Viavel ==
    Valida(projetos, capacidade) =>
        /\ \A f \in Solucionadores : Retornou(f) =>
              /\ SemRepeticao(Saida(f).itens)
              /\ Range(Saida(f).itens) \subseteq NomesDaEntrada
              /\ SomaCusto(Saida(f).itens) <= capacidade
        /\ pc \in {"pd_reconstroi", "fim"} => c >= 0

\* The reconstruction has selected at least two items and used the whole
\* capacity, and every solver has returned.
C2_Witness ==
    /\ pc = "fim"
    /\ Len(Saida("pd").itens) >= 2
    /\ c = 0
    /\ capacidade > 0

\* C3: on a valid input the value each solver returns is the sum of the valor
\* fields of exactly the items it returns as chosen; for mochila_pd the items
\* recovered by the backward walk sum to tabela[n][capacidade].
C3_ValorDosEscolhidos ==
    Valida(projetos, capacidade) =>
        /\ \A f \in Solucionadores : Retornou(f) =>
              Saida(f).valor = SomaValor(Saida(f).itens)
        /\ pc = "fim" => SomaValor(itens_escolhidos) = tabela[n][capacidade]

\* Every solver has returned a positive value made of at least two items.
C3_Witness ==
    /\ pc = "fim"
    /\ \A f \in Solucionadores : Saida(f).valor > 0 /\ Len(Saida(f).itens) >= 2

\* C4: on a valid input mochila_memo returns exactly what mochila_recursiva
\* returns: the same value and the same sequence of names, also when several
\* subsets are optimal.
C4_MemoIgualRecursiva ==
    (Valida(projetos, capacidade) /\ Retornou("memo")) =>
        /\ Retornou("recursiva")
        /\ Saida("memo") = Saida("recursiva")

\* mochila_memo has returned a non-empty selection on an input with several
\* optimal subsets.
C4_Witness ==
    /\ Retornou("memo")
    /\ Saida("memo").itens # <<>>
    /\ VariosOtimos

\* C5 as stated: when all items together fit in the capacity, every solver
\* returns every item and the sum of all values.
C5_SelecionaTodos ==
    (Valida(projetos, capacidade) /\ CabeTudo) =>
        \A f \in Solucionadores : Retornou(f) =>
            /\ NomesDaEntrada \subseteq Range(Saida(f).itens)
            /\ Saida(f).valor = ValorDe(1..n)

\* C5 as amended: when all items together fit in the capacity, every solver
\* returns the sum of all values; mochila_gulosa returns every item, and
\* mochila_recursiva, mochila_memo and mochila_pd return exactly the items
\* whose valor is positive.
C5_SelecionaTodosDeValorPositivo ==
    (Valida(projetos, capacidade) /\ CabeTudo) =>
        /\ \A f \in Solucionadores : Retornou(f) => Saida(f).valor = ValorDe(1..n)
        /\ Retornou("gulosa") => Range(Saida("gulosa").itens) = NomesDaEntrada
        /\ \A f \in Exatos : Retornou(f) =>
              Range(Saida(f).itens) =
                  { projetos[x].nome : x \in { y \in 1..n : projetos[y].valor > 0 } }

\* All items fit exactly, one of them has valor 0, another a positive valor,
\* and every solver has returned.
C5_Witness ==
    /\ pc = "fim"
    /\ n >= 2
    /\ CustoDe(1..n) = capacidade
    /\ \E x, y \in 1..n : projetos[x].valor = 0 /\ projetos[y].valor > 0

\* C6 as stated: on the reference input mochila_recursiva, mochila_memo and
\* mochila_pd each return the total value 23.
C6_Referencia23 ==
    (projetos = exemplo_enunciado.projetos /\ capacidade = exemplo_enunciado.capacidade) =>
        \A f \in Exatos : Retornou(f) => Saida(f).valor = 23

\* C6 as amended: on the reference input mochila_recursiva, mochila_memo and
\* mochila_pd each return the total value 29 (items A, B, C).
C6_Referencia29 ==
    (projetos = exemplo_enunciado.projetos /\ capacidade = exemplo_enunciado.capacidade) =>
        \A f \in Exatos : Retornou(f) => Saida(f).valor = 29

\* The run on the reference input has finished.
C6_Witness ==
    /\ projetos = exemplo_enunciado.projetos
    /\ capacidade = exemplo_enunciado.capacidade
    /\ pc = "fim"
    /\ \A f \in Exatos : Retornou(f)

\* C7: on an input with an item of non-positive cost or with a negative
\* capacity no solver returns a (value, names) result.
C7_EntradaInvalidaRejeitada ==
    ~ Valida(projetos, capacidade) => \A f \in Solucionadores : ~ Retornou(f)

\* C8: once the forward fill of mochila_pd has finished on a valid input,
\* row 0 of tabela is 0 and tabela is non-decreasing in i and in c.
C8_TabelaMonotona ==
    (Valida(projetos, capacidade) /\ pc \in {"pd_reconstroi", "fim"}) =>
        /\ \A y \in 0..capacidade : tabela[0][y] = 0
        /\ \A x \in 1..n : \A y \in 0..capacidade : tabela[x][y] >= tabela[x - 1][y]
        /\ \A x \in 0..n : \A y \in 1..capacidade : tabela[x][y] >= tabela[x][y - 1]

\* The fill has finished on a table that grows strictly both along a row and
\* along a column.
C8_Witness ==
    /\ pc = "pd_reconstroi"
    /\ n >= 2
    /\ \E x \in 1..n : \E y \in 1..capacidade :
          /\ tabela[x][y] > tabela[x][y - 1]
          /\ tabela[x][y] > tabela[x - 1][y]

\* A call of mochila_memo.resolver that is at line 90 with a state that is
\* neither a base case nor new.
AcertoNoCache ==
    /\ pc = "memo_resolver"
    /\ pilha # <<>>
    /\ Topo.pos = "inicio"
    /\ Topo.i >= 0
    /\ Topo.c > 0
    /\ << Topo.i, Topo.c >> \in DOMAIN memo

\* C9: during a call of mochila_memo each key (i, c) is written to memo at
\* most once and the body of resolver runs at most once per key; a call with a
\* key already in memo returns the cached entry without running the body or
\* writing; an entry once written is never removed or replaced.
C9_CadaChaveUmaVez ==
    [][ /\ SemRepeticao(escritas')
        /\ SemRepeticao(avaliadas')
        /\ Range(escritas') = DOMAIN memo'
        /\ \A ch \in DOMAIN memo : ch \in DOMAIN memo' /\ memo'[ch] = memo[ch]
        /\ AcertoNoCache =>
              /\ ret' = memo[<< Topo.i, Topo.c >>]
              /\ memo' = memo
              /\ avaliadas' = avaliadas
              /\ escritas' = escritas ]_vars

\* A call finds its key in memo.
C9_Witness == AcertoNoCache /\ Len(escritas) >= 2

\* C10: on a valid input mochila_pd returns the same sequence of names, and
\* the same value, as mochila_recursiva.
C10_PdIgualRecursiva ==
    (Valida(projetos, capacidade) /\ Retornou("pd")) =>
        /\ Retornou("recursiva")
        /\ Saida("pd") = Saida("recursiva")

\* mochila_pd has returned a non-empty selection on an input with several
\* optimal subsets.
C10_Witness ==
    /\ Retornou("pd")
    /\ Saida("pd").itens # <<>>
    /\ VariosOtimos

====
